---- MODULE Spec2Model ----
(***************************************************************************)
(* A model of src/base/clients/clients.py: the REST client                 *)
(* (KalshiHttpClient: rate limiter, signed headers, HTTP primitives, order *)
(* operations) and the streaming client (KalshiWebSocketClient: connect,   *)
(* on_open, control messages and their ids).                               *)
(*                                                                         *)
(* Time is the wall clock in milliseconds.  A REST call is split at the    *)
(* points where another thread can interleave or time can pass: the read   *)
(* of the clock in rate_limit, the sleep, the write of last_api_call, the  *)
(* building of the headers and the HTTP request itself.                    *)
(***************************************************************************)
EXTENDS Integers, Sequences, FiniteSets, TLC

\* ------------------------------------------------------------------ bounds
ClockStep == 50
MaxTime == 300
MaxCalls == 3
MaxMsgs == 6
MaxConcMsgs == 2
MaxItems == 3
PageSize == 2
MaxConnects == 2
MaxInbound == 2

\* --------------------------------------------------------------- constants
THRESHOLD_IN_MILLISECONDS == 100
None == -1

Threads == {1, 2}
Caller == 1

\* Values a caller passes for an optional integer argument (None: omitted).
\* 0 is a supplied value that is falsy in Python.
OptInts == {None, 0, 5}

\* Status codes the server may answer with, one or more from each class and
\* both ends of the 2xx class.
Statuses == {100, 200, 298, 299, 304, 404, 429, 500}

portfolio_url == "/trade-api/v2/portfolio"

VARIABLES
    clock,          \* the wall clock, ms
    last_api_call,  \* self.last_api_call
    pc,             \* per thread: where its REST call stands
    cur,            \* per thread: the invocation in progress (or the last one)
    now,            \* per thread: rate_limit's local `now`
    acq,            \* per thread: what this invocation wrote to last_api_call
    hdr,            \* per thread: the headers this invocation built
    sent,           \* per thread: the HTTP request this invocation issued
    nreq,           \* per thread: HTTP requests issued by this invocation
    outcome,        \* per thread: how the invocation ended
    gate,           \* history: the successive values written to last_api_call
    ncalls,         \* history: invocations that reached an HTTP primitive
    ws,             \* self.ws: "None", or the connection, "open" or "closed"
    message_id,     \* self.message_id
    wire,           \* history: the control messages written to the socket
    co,             \* per coroutine: its place in ws.send and its message
    conn,           \* where connect() stands
    inbox,          \* inbound messages received and not yet dispatched
    close_code,     \* the close code of the connection once it is closed
    log,            \* history: connect calls, handshakes and callbacks
    nops            \* history: control operations that have returned

restVars == <<clock, last_api_call, pc, cur, now, acq, hdr, sent, nreq,
              outcome, gate, ncalls>>
wsVars == <<ws, message_id, wire, co, conn, inbox, close_code, log, nops>>
vars == <<restVars, wsVars>>

NoSignature == [key |-> "", text |-> <<>>, salt |-> 0]
NoHdr == [ts |-> None, method |-> "", path |-> <<>>, call |-> 0,
          timestamp |-> <<>>, msg |-> <<>>, signature |-> NoSignature]
NoReq == [method |-> "", path |-> <<>>, body |-> {}, params |-> {},
          hdr |-> NoHdr]
NoCall == [op |-> "", a |-> None, b |-> None, method |-> "", path |-> <<>>,
           body |-> {}, args |-> {}, params |-> {}, no |-> 0]
NoPage == [items |-> <<>>, cursor |-> None]
NoOutcome == [kind |-> "none", status |-> 0, value |-> NoPage]

\* ------------------------------------------------------------ rate_limit
\* line 114: now - self.last_api_call < timedelta(microseconds=1000 * 100)
MustSleepNever(n, last) == FALSE
MustSleep(n, last) == n - last < THRESHOLD_IN_MILLISECONDS

\* line 115: time.sleep(0.1) returns no earlier than 100 ms after it was
\* called, and it was called no earlier than `now` was read.
SleepOver(t) == clock - now[t] >= THRESHOLD_IN_MILLISECONDS

\* lines 114-116: after the sleep rate_limit goes on to line 116; it does
\* not look at last_api_call again.
AfterSleepReadAgain == "rate_limit"
AfterSleep == "acquire"

\* The order of the steps of an HTTP primitive (post, get, delete and the
\* body of cancel_batched_orders): rate_limit(), then request_headers() as an
\* argument of requests.<verb>(), then the request.
StepAfterHeadersFirst(step) ==
    CASE step = "call" -> "headers"
      [] step = "headers" -> "rate_limit"
      [] step = "acquire" -> "request"
StepAfter(step) ==
    CASE step = "call" -> "rate_limit"
      [] step = "acquire" -> "headers"
      [] step = "headers" -> "request"

\* lines 118-121: raise_for_status() of the requests library raises HTTPError
\* for 400 <= status < 600 and for nothing else.
raise_for_status(status) == status >= 400 /\ status < 600
raise_if_bad_responseAll(status) == ~(status >= 200 /\ status < 300)
raise_if_bad_response(status) ==
    IF ~(status >= 200 /\ status < 299) THEN raise_for_status(status) ELSE FALSE

\* What a primitive does after the response: raise (HTTPError) or return
\* response.json(); either way the invocation is over.
AfterResponseRetry(status) == IF status = 429 THEN "request" ELSE "idle"
AfterResponse(status) == "idle"

\* {k: v for k, v in d.items() if v is not None}
DropNoneFalsy(d) == {kv \in d : kv[2] # None /\ kv[2] # 0}
DropNone(d) == {kv \in d : kv[2] # None}

\* lines 395 and 432: neither or both members of the pair supplied
PairInvalidNeither(a, b) == a = None /\ b = None
PairInvalid(a, b) == (a = None /\ b = None) \/ (a # None /\ b # None)

\* ------------------------------------------------------ request_headers
\* A path (a Python str) is the sequence of its pieces between the '?'
\* characters, the "?" themselves included: <<"/a", "?", "x=1">> is "/a?x=1".
\* Paths a caller may hand to get().
RawPaths == {<<"/trade-api/v2/exchange/status">>,
             <<"/trade-api/v2/markets", "?", "limit=1", "?", "x">>,
             <<"?", "limit=1">>}

\* str(n) for n >= 0: the decimal digits
Digit(d) == <<"0", "1", "2", "3", "4", "5", "6", "7", "8", "9">>[d + 1]
RECURSIVE str(_)
str(n) == IF n < 10 THEN <<Digit(n)>> ELSE str(n \div 10) \o <<Digit(n % 10)>>

\* line 56 and the [0] of line 58: path.split('?')[0]
RECURSIVE UpToQuery(_)
UpToQueryKept(path) == path
UpToQuery(path) ==
    IF path = <<>> \/ Head(path) = "?" THEN <<>>
    ELSE <<Head(path)>> \o UpToQuery(Tail(path))

\* lines 69-81: the base64 of the RSA-PSS signature of the text
\* with the private key of the client. PSS draws a fresh random salt for every
\* signature (line 76), so the signature depends on the salt too.
Salts == {1, 2}
private_key == "key"
sign_pss_textOverSalt(text, salt) ==
    [key |-> private_key, text |-> text \o str(salt), salt |-> salt]
sign_pss_text(text, salt) == [key |-> private_key, text |-> text, salt |-> salt]

\* Verification with the public key of `key`: the signature was made with
\* that key over that text, whatever its salt.
verify(key, text, signature) == signature.key = key /\ signature.text = text

\* lines 52-67: the headers for `method` and `path` at time `ms`
Headers(ms, method, path, call, salt) ==
    [ts |-> ms, method |-> method, path |-> path, call |-> call,
     timestamp |-> str(ms),
     msg |-> str(ms) \o <<method>> \o UpToQuery(path),
     signature |-> sign_pss_text(str(ms) \o <<method>> \o UpToQuery(path),
                                 salt)]

\* What a primitive does when request_headers raises: the exception leaves
\* the primitive before requests.<verb> is called.
AfterSignFailureResign == "headers"
AfterSignFailure == "idle"

\* private_key.sign raises: InvalidSignature is re-raised as ValueError
\* (lines 82-83), anything else propagates as it is.
SignErrors == {"ValueError: RSA sign PSS failed", "UnsupportedAlgorithm"}

\* ---------------------------------------------------------- HTTP primitives
\* Entry of post/get/delete/cancel_batched_orders: nothing has happened yet
\* but the call is on the stack; its locals are fresh.
Enter(t, call) ==
    /\ pc[t] = "idle"
    /\ ncalls < MaxCalls
    /\ ncalls' = ncalls + 1
    /\ cur' = [cur EXCEPT ![t] = [call EXCEPT !.no = ncalls + 1]]
    /\ pc' = [pc EXCEPT ![t] = StepAfter("call")]
    /\ now' = [now EXCEPT ![t] = None]
    /\ acq' = [acq EXCEPT ![t] = None]
    /\ hdr' = [hdr EXCEPT ![t] = NoHdr]
    /\ sent' = [sent EXCEPT ![t] = NoReq]
    /\ nreq' = [nreq EXCEPT ![t] = 0]
    /\ outcome' = [outcome EXCEPT ![t] = NoOutcome]
    /\ UNCHANGED <<clock, last_api_call, gate, wsVars>>

\* A public method that raises ValueError before it reaches a primitive.
RaiseValueError(t, op, a, b) ==
    /\ pc[t] = "idle"
    /\ cur' = [cur EXCEPT ![t] = [NoCall EXCEPT !.op = op, !.a = a, !.b = b]]
    /\ outcome' = [outcome EXCEPT ![t] = [NoOutcome EXCEPT !.kind = "ValueError"]]
    /\ now' = [now EXCEPT ![t] = None]
    /\ acq' = [acq EXCEPT ![t] = None]
    /\ hdr' = [hdr EXCEPT ![t] = NoHdr]
    /\ sent' = [sent EXCEPT ![t] = NoReq]
    /\ nreq' = [nreq EXCEPT ![t] = 0]
    /\ UNCHANGED <<clock, last_api_call, pc, gate, ncalls, wsVars>>

\* lines 69-81: a caller signs `text` with the client's key; the call is one
\* step, and its result is what the caller holds afterwards.
SignedTexts == {<<"100", "GET", "/trade-api/ws/v2">>,
                <<"100", "POST", "/trade-api/v2/portfolio/orders">>}

SignText(t, text, salt) ==
    /\ pc[t] = "idle"
    /\ cur' = [cur EXCEPT ![t] = [NoCall EXCEPT !.op = "sign_pss_text",
                                                !.path = text]]
    /\ outcome' = [outcome EXCEPT ![t] =
                     [kind |-> "returned", status |-> 0,
                      value |-> sign_pss_text(text, salt)]]
    /\ now' = [now EXCEPT ![t] = None]
    /\ acq' = [acq EXCEPT ![t] = None]
    /\ hdr' = [hdr EXCEPT ![t] = NoHdr]
    /\ sent' = [sent EXCEPT ![t] = NoReq]
    /\ nreq' = [nreq EXCEPT ![t] = 0]
    /\ UNCHANGED <<clock, last_api_call, pc, gate, ncalls, wsVars>>

\* A public method that calls a method the client does not have: the
\* attribute lookup raises AttributeError before anything else happens.
RaiseAttributeError(t, op) ==
    /\ pc[t] = "idle"
    /\ cur' = [cur EXCEPT ![t] = [NoCall EXCEPT !.op = op]]
    /\ outcome' = [outcome EXCEPT ![t] =
                     [NoOutcome EXCEPT !.kind = "AttributeError"]]
    /\ now' = [now EXCEPT ![t] = None]
    /\ acq' = [acq EXCEPT ![t] = None]
    /\ hdr' = [hdr EXCEPT ![t] = NoHdr]
    /\ sent' = [sent EXCEPT ![t] = NoReq]
    /\ nreq' = [nreq EXCEPT ![t] = 0]
    /\ UNCHANGED <<clock, last_api_call, pc, gate, ncalls, wsVars>>

\* lines 125-156: the HTTP primitives that KalshiHttpClient defines
HttpMethods == {"post", "get", "delete"}

post(t, op, a, b, path, body) ==
    Enter(t, [NoCall EXCEPT !.op = op, !.a = a, !.b = b, !.method = "POST",
                            !.path = path, !.body = body])
get(t, path) == Enter(t, [NoCall EXCEPT !.op = "get", !.method = "GET",
                                        !.path = path])
delete(t, path) == Enter(t, [NoCall EXCEPT !.op = "delete", !.method = "DELETE",
                                           !.path = path])

\* get(path, params=params) called by the getter `op` that was given `args`
GetWithParams(t, op, args, path, params) ==
    Enter(t, [NoCall EXCEPT !.op = op, !.args = args, !.method = "GET",
                            !.path = path, !.params = params])

cancel_batched_orders(t) ==
    Enter(t, [NoCall EXCEPT !.op = "cancel_batched_orders", !.method = "DELETE",
                            !.path = <<portfolio_url \o "/orders/batched">>,
                            !.body = {<<"ids", 1>>}])

\* ---------------------------------------------------------- order methods
create_order(t, yes_price, no_price) ==
    post(t, "create_order", yes_price, no_price, <<portfolio_url \o "/orders">>,
         DropNone({<<"no_price", no_price>>, <<"yes_price", yes_price>>}))

amend_order(t, yes_price, no_price) ==
    IF PairInvalid(yes_price, no_price)
    THEN RaiseValueError(t, "amend_order", yes_price, no_price)
    ELSE post(t, "amend_order", yes_price, no_price,
              <<portfolio_url \o "/orders/id/amend">>,
              DropNone({<<"no_price", no_price>>, <<"yes_price", yes_price>>}))

decrease_order(t, reduce_by, reduce_to) ==
    IF PairInvalid(reduce_by, reduce_to)
    THEN RaiseValueError(t, "decrease_order", reduce_by, reduce_to)
    ELSE post(t, "decrease_order", reduce_by, reduce_to,
              <<portfolio_url \o "/orders/id/decrease">>,
              DropNone({<<"reduce_by", reduce_by>>, <<"reduce_to", reduce_to>>}))

get_order(t) == get(t, <<portfolio_url \o "/orders/id">>)
cancel_order(t) == delete(t, <<portfolio_url \o "/orders/id">>)

\* lines 527-540: return self.put(.../order_groups/<id>/reset, body={})
reset_order_group(t) ==
    IF "put" \in HttpMethods
    THEN Enter(t, [NoCall EXCEPT !.op = "reset_order_group", !.method = "PUT",
                                 !.path = <<portfolio_url \o "/order_groups/id/reset">>])
    ELSE RaiseAttributeError(t, "reset_order_group")

\* line 1001: the query string is part of the path given to get()
get_market_candlesticks(t) ==
    get(t, <<"/trade-api/v2/series/S/markets/T/candlesticks", "?",
             "start_ts=1&end_ts=2&period_interval=1">>)

\* ------------------------------------------------------------ getters
\* A filter of a drop-None getter is only tested against None and handed on:
\* its value is one of OptInts whatever its Python type (0: a supplied value
\* that is falsy, such as 0 or ""). `f` gives every filter its value.
Dict(keys, f) == {<<k, f[k]>> : k \in keys}

MarketFilters == {"event_ticker", "series_ticker", "max_close_ts",
                  "min_close_ts", "limit", "cursor", "status"}
PositionFilters == {"cursor", "limit", "count_filter", "settlement_status",
                    "ticker", "event_ticker"}
FillFilters == {"ticker", "order_id", "min_ts", "max_ts", "limit", "cursor"}
OrderFilters == {"ticker", "event_ticker", "min_ts", "max_ts", "status",
                 "cursor", "limit"}
TradeFilters == {"ticker", "limit", "cursor", "max_ts", "min_ts"}

\* lines 699-712
get_markets(t, f) ==
    GetWithParams(t, "get_markets", Dict(MarketFilters, f),
                  <<"/trade-api/v2/markets">>, DropNone(Dict(MarketFilters, f)))

\* lines 188-223: one fetch of the positions endpoint
get_positions(t, f) ==
    GetWithParams(t, "get_positions", Dict(PositionFilters, f),
                  <<portfolio_url \o "/positions">>,
                  DropNone(Dict(PositionFilters, f)))

\* lines 225-258
get_fills(t, f) ==
    GetWithParams(t, "get_fills", Dict(FillFilters, f),
                  <<portfolio_url \o "/fills">>, DropNone(Dict(FillFilters, f)))

\* lines 260-296
get_orders(t, f) ==
    GetWithParams(t, "get_orders", Dict(OrderFilters, f),
                  <<portfolio_url \o "/orders">>, DropNone(Dict(OrderFilters, f)))

\* lines 839-857
get_trades(t, f) ==
    GetWithParams(t, "get_trades", Dict(TradeFilters, f),
                  <<"/trade-api/v2/markets/trades">>,
                  DropNone(Dict(TradeFilters, f)))

\* lines 652-664: positions_data = self.get_positions()
get_total_market_exposure(t) ==
    GetWithParams(t, "get_total_market_exposure", {},
                  <<portfolio_url \o "/positions">>,
                  DropNone(Dict(PositionFilters,
                                [k \in PositionFilters |-> None])))

\* lines 1067-1124: the fetch of plot_market_candlesticks for the last
\* `days` days
plot_market_candlesticks(t, days) ==
    Enter(t, [NoCall EXCEPT !.op = "plot_market_candlesticks", !.a = days,
                            !.method = "GET",
                            !.path = <<"/trade-api/v2/series/S/markets/S-T/candlesticks",
                                       "?", "start_ts=1&end_ts=2&period_interval=60">>])

\* Arguments whose Python type matters (str, list) are boxed with their
\* type, so that "" and [] are values of their own.
PyNone == [none |-> None]
PyStr(string) == [str |-> string]
PyList(list) == [list |-> list]

\* bool(v) for None, a str or a list
Truthy(v) == v \notin {PyNone, PyStr(""), PyList(<<>>)}

\* ','.join(list)
RECURSIVE Join(_)
Join(list) ==
    IF list = <<>> THEN ""
    ELSE IF Len(list) = 1 THEN list[1]
    ELSE list[1] \o "," \o Join(Tail(list))

Tickers == {PyNone, PyStr(""), PyStr("T")}
IdLists == {PyNone, PyList(<<>>), PyList(<<"a">>), PyList(<<"a", "b">>)}

\* lines 861-864: params = {'ticker': ticker} if ticker else {}
get_events(t, ticker) ==
    GetWithParams(t, "get_events", {<<"ticker", ticker>>},
                  <<"/trade-api/v2/events/">>,
                  IF Truthy(ticker) THEN {<<"ticker", ticker>>} ELSE {})

\* lines 1057-1063
get_live_data_batch(t, milestone_ids, data_types) ==
    GetWithParams(t, "get_live_data_batch",
                  {<<"milestone_ids", milestone_ids>>,
                   <<"data_types", data_types>>},
                  <<"/trade-api/v2/live_data/batch">>,
                  (IF Truthy(milestone_ids)
                   THEN {<<"milestone_ids", PyStr(Join(milestone_ids.list))>>}
                   ELSE {})
                  \cup
                  (IF Truthy(data_types)
                   THEN {<<"data_types", PyStr(Join(data_types.list))>>}
                   ELSE {}))

\* ------------------------------------------------- the positions endpoint
\* The member has MaxItems positions, numbered 1..MaxItems. The endpoint
\* answers with the page that starts after `cursor` (None: at the start) and
\* holds at most `limit` positions (PageSize when no usable limit is given),
\* and with a cursor exactly when positions remain after the page.
Min(x, y) == IF x < y THEN x ELSE y
ParamOf(params, key) ==
    IF \E kv \in params : kv[1] = key
    THEN (CHOOSE kv \in params : kv[1] = key)[2] ELSE None

Page(cursor, limit) ==
    LET off == IF cursor = None THEN 0 ELSE cursor
        k == IF limit = None \/ limit < 1 THEN PageSize ELSE limit
        n == IF off >= MaxItems THEN 0 ELSE Min(k, MaxItems - off)
    IN  [items |-> [i \in 1..n |-> off + i],
         cursor |-> IF off + n < MaxItems THEN off + n ELSE None]

\* The candlesticks endpoint answers with the candlesticks of the period
\* asked for: none for an empty period, MaxItems of them otherwise.
Candlesticks(days) ==
    [items |-> [i \in 1..(IF days > 0 THEN MaxItems ELSE 0) |-> i],
     cursor |-> None]

\* response.json() of the call `c`; only these bodies are modelled.
Json(c) ==
    IF c.op \in {"get_positions", "get_total_market_exposure"}
    THEN Page(ParamOf(c.params, "cursor"), ParamOf(c.params, "limit"))
    ELSE IF c.op = "plot_market_candlesticks" THEN Candlesticks(c.a)
    ELSE NoPage

\* The market_exposure of the member's position i: positive or negative.
Exposure(i) == IF i % 2 = 0 THEN 0 - i ELSE i
Abs(x) == IF x < 0 THEN 0 - x ELSE x

\* lines 660-663: sum(abs(position.get("market_exposure", 0)) for ...)
RECURSIVE total_exposure(_)
total_exposure(items) ==
    IF items = <<>> THEN 0
    ELSE Abs(Exposure(Head(items))) + total_exposure(Tail(items))

\* How the public method of call `c` ends when its HTTP primitive ended
\* with `kind` (returned, or the exception raised) on status `status`.
\* plot_market_candlesticks (lines 1109-1124) catches every exception of the
\* fetch and returns None, as it does when there are no candlesticks;
\* get_total_market_exposure (lines 659-664) returns the sum over the
\* positions of the one response it fetched; the other methods return the
\* body or let the exception through.
Result(c, kind, status) ==
    IF c.op = "plot_market_candlesticks"
    THEN [kind |-> "returned", status |-> status,
          value |-> IF kind = "returned" /\ Json(c).items # <<>>
                    THEN [figure |-> Len(Json(c).items)] ELSE PyNone]
    ELSE IF c.op = "get_total_market_exposure" /\ kind = "returned"
    THEN [kind |-> kind, status |-> status,
          value |-> [total |-> total_exposure(Json(c).items)]]
    ELSE [kind |-> kind, status |-> status,
          value |-> IF kind = "returned" THEN Json(c) ELSE NoPage]

\* ------------------------------------------------- the steps of a primitive
\* line 111 and the comparison of line 114
RlRead(t) ==
    /\ pc[t] = "rate_limit"
    /\ now' = [now EXCEPT ![t] = clock]
    /\ pc' = [pc EXCEPT ![t] =
                IF MustSleep(clock, last_api_call) THEN "sleep" ELSE "acquire"]
    /\ UNCHANGED <<clock, last_api_call, cur, acq, hdr, sent, nreq, outcome,
                   gate, ncalls, wsVars>>

\* line 115
RlWake(t) ==
    /\ pc[t] = "sleep"
    /\ SleepOver(t)
    /\ pc' = [pc EXCEPT ![t] = AfterSleep]
    /\ UNCHANGED <<clock, last_api_call, cur, now, acq, hdr, sent, nreq,
                   outcome, gate, ncalls, wsVars>>

\* line 116
RlAcquire(t) ==
    /\ pc[t] = "acquire"
    /\ last_api_call' = clock
    /\ acq' = [acq EXCEPT ![t] = clock]
    /\ gate' = Append(gate, clock)
    /\ pc' = [pc EXCEPT ![t] = StepAfter("acquire")]
    /\ UNCHANGED <<clock, cur, now, hdr, sent, nreq, outcome, ncalls, wsVars>>

\* lines 50-67, called while the arguments of requests.<verb>() are evaluated
request_headers(t, salt) ==
    /\ pc[t] = "headers"
    /\ hdr' = [hdr EXCEPT ![t] =
                 Headers(clock, cur[t].method, cur[t].path, cur[t].no, salt)]
    /\ pc' = [pc EXCEPT ![t] = StepAfter("headers")]
    /\ UNCHANGED <<clock, last_api_call, cur, now, acq, sent, nreq, outcome,
                   gate, ncalls, wsVars>>

\* request_headers raises inside sign_pss_text (the key is unusable or the
\* primitive rejects the input).
SignFails(t, error) ==
    /\ pc[t] = "headers"
    /\ outcome' = [outcome EXCEPT ![t] = Result(cur[t], error, 0)]
    /\ pc' = [pc EXCEPT ![t] = AfterSignFailure]
    /\ UNCHANGED <<clock, last_api_call, cur, now, acq, hdr, sent, nreq,
                   gate, ncalls, wsVars>>

\* requests.<verb>(...) answered with `status`, then
\* raise_if_bad_response(response), then response.json(), which raises
\* JSONDecodeError when the body is not JSON (`decodes` false).
Classify(status, decodes) ==
    IF raise_if_bad_response(status) THEN "HTTPError"
    ELSE IF decodes THEN "returned" ELSE "JSONDecodeError"

Request(t, status, decodes) ==
    /\ pc[t] = "request"
    /\ sent' = [sent EXCEPT ![t] = [method |-> cur[t].method, path |-> cur[t].path,
                                    body |-> cur[t].body,
                                    params |-> cur[t].params, hdr |-> hdr[t]]]
    /\ nreq' = [nreq EXCEPT ![t] = @ + 1]
    /\ outcome' = [outcome EXCEPT ![t] =
                     Result(cur[t], Classify(status, decodes), status)]
    /\ pc' = [pc EXCEPT ![t] = AfterResponse(status)]
    /\ UNCHANGED <<clock, last_api_call, cur, now, acq, hdr, gate, ncalls, wsVars>>

\* requests.<verb>(...) raises (no response: connection error or timeout);
\* the exception leaves the primitive.
RequestFails(t) ==
    /\ pc[t] = "request"
    /\ sent' = [sent EXCEPT ![t] = [method |-> cur[t].method, path |-> cur[t].path,
                                    body |-> cur[t].body,
                                    params |-> cur[t].params, hdr |-> hdr[t]]]
    /\ nreq' = [nreq EXCEPT ![t] = @ + 1]
    /\ outcome' = [outcome EXCEPT ![t] = Result(cur[t], "ConnectionError", 0)]
    /\ pc' = [pc EXCEPT ![t] = "idle"]
    /\ UNCHANGED <<clock, last_api_call, cur, now, acq, hdr, gate, ncalls, wsVars>>

\* Time passes.
Tick ==
    /\ clock + ClockStep <= MaxTime
    /\ clock' = clock + ClockStep
    /\ UNCHANGED <<last_api_call, pc, cur, now, acq, hdr, sent, nreq, outcome,
                   gate, ncalls, wsVars>>

\* time.sleep returns: time does not stop while a thread is asleep, whatever
\* the time is.
TickAsleep ==
    /\ clock + ClockStep > MaxTime
    /\ \E t \in Threads : pc[t] = "sleep" /\ ~SleepOver(t)
    /\ clock' = clock + ClockStep
    /\ UNCHANGED <<last_api_call, pc, cur, now, acq, hdr, sent, nreq, outcome,
                   gate, ncalls, wsVars>>

\* ====================================================== streaming client
\* Coroutines of the event loop: 0 runs connect() (and with it on_open and
\* handler), the others are callers of the subscribe/unsubscribe methods.
\* Between two awaits a coroutine runs without interleaving.
Connector == 0
Callers == {1, 2}
Coros == {Connector} \cup Callers

\* A control message: the fields of the dict, the coroutine that built it
\* and the connect() call during which it was built.
NoMsg == [id |-> 0, cmd |-> "", channels |-> <<>>, by |-> 0, sess |-> 0]

\* line 1354
FirstMessageIdZero == 1 - 1
FirstMessageId == 1

\* self.message_id += 1
NextIdSame(id) == id
NextIdSkip(id) == id + 2
NextId(id) == id + 1

\* An entry of the history: arg is the outcome of a handshake (1: upgrade
\* succeeded, 0: failed), the message of an on_message, the code of an
\* on_close, and 0 otherwise. An exception raised in the read loop is
\* entered under the name of its class, with the message on_message was
\* handling (0: raised by the iteration), and on_error is entered with the
\* message whose exception it was given.
Event(ev, arg) == [ev |-> ev, arg |-> arg]
Count(ev) == Cardinality({i \in 1..Len(log) : log[i].ev = ev})

\* Close codes: websockets ends `async for` silently on 1000 and 1001 and
\* raises ConnectionClosedError on the others (1002: protocol error, 1006:
\* connection lost without a close frame).
OKCodes == {1000, 1001}
CloseCodes == OKCodes \cup {1002, 1006}

\* ws.send writes one frame per call.
TransmitOncePerChannels(w, m) ==
    IF \E i \in 1..Len(w) : w[i].cmd = m.cmd /\ w[i].channels = m.channels
    THEN w ELSE Append(w, m)
Transmit(w, m) == Append(w, m)

\* line 1363: handler() is awaited after on_open() has returned.
CanDispatchInOnOpen(c) == c \in {"on_open", "handler"}
CanDispatch(c) == c = "handler"

\* `async for message in self.ws` stops waiting when the connection is closed.
ReadLoopWakesNever(w) == FALSE
ReadLoopWakes(w) == w = "closed"

\* What connect() does once handler() has returned: the `async with` block
\* is left and connect() returns.
AfterHandlerReconnect == "init"
AfterHandler == "returned"

\* Nobody is inside ws.send: the previous control message has completed.
Quiet == \A c \in Coros : co[c].pc = "idle"

\* What `await self.ws.send(...)` raises when it is entered: with
\* self.ws = None the attribute access self.ws.send raises AttributeError,
\* on a closed connection ws.send raises ConnectionClosed, on an open one
\* nothing is raised on entry.
SendErrorOnlyUnset(w) == IF w = "None" THEN "AttributeError" ELSE ""
SendError(w) ==
    IF w = "None" THEN "AttributeError"
    ELSE IF w = "closed" THEN "ConnectionClosed"
    ELSE ""

\* lines 1379-1380: when `await self.ws.send(...)` raises, the statement
\* `self.message_id += 1` is not reached.
AfterSendRaisesIncrement(id) == id + 1
AfterSendRaises(id) == id

\* The common body of subscribe_to_tickers .. send_custom_message up to the
\* first point where ws.send can suspend: the message is built with the
\* current message_id and ws.send is entered.
SendControl(c, cmd, channels) ==
    LET m == [id |-> message_id, cmd |-> cmd, channels |-> channels,
              by |-> c, sess |-> Count("connect")]
    IN  /\ co[c].pc = "idle"
        /\ message_id <= MaxMsgs
        /\ IF SendError(ws) # ""
           THEN /\ co' = [co EXCEPT ![c] = [pc |-> "idle", msg |-> m,
                                            err |-> SendError(ws)]]
                /\ message_id' = AfterSendRaises(message_id)
           ELSE /\ co' = [co EXCEPT ![c] = [pc |-> "send", msg |-> m,
                                            err |-> ""]]
                /\ UNCHANGED message_id
        /\ UNCHANGED <<ws, wire, conn, inbox, close_code, log, nops, restVars>>

\* lines 1370-1380
subscribe_to_tickers(c) == SendControl(c, "subscribe", <<"ticker">>)

\* lines 1382-1392
subscribe_to_specific_tickers(c, tickers) ==
    SendControl(c, "subscribe",
                [i \in 1..Len(tickers) |-> "ticker:" \o tickers[i]])

\* lines 1394-1404
subscribe_to_orderbook(c, ticker) ==
    SendControl(c, "subscribe", <<"orderbook_delta:" \o ticker>>)

\* lines 1406-1421 (`if ticker:` is false for None and for "")
subscribe_to_trades(c, ticker) ==
    SendControl(c, "subscribe",
                <<IF ticker # "" THEN "trade:" \o ticker ELSE "trade">>)

\* lines 1423-1433
unsubscribe_from_channel(c, channel) ==
    SendControl(c, "unsubscribe", <<channel>>)

\* lines 1435-1439: the id of the caller's dict is overwritten
send_custom_message(c, cmd) == SendControl(c, cmd, <<>>)

\* Inside ws.send: the frame is written to the open connection.
SendWrite(c) ==
    /\ co[c].pc = "send"
    /\ ws = "open"
    /\ wire' = Transmit(wire, co[c].msg)
    /\ co' = [co EXCEPT ![c].pc = "sent"]
    /\ UNCHANGED <<ws, message_id, conn, inbox, close_code, log, nops, restVars>>

\* ws.send returns, and the statement after the await runs.
SendReturn(c) ==
    /\ co[c].pc = "sent"
    /\ message_id' = NextId(message_id)
    /\ co' = [co EXCEPT ![c] = [pc |-> "idle", msg |-> NoMsg, err |-> ""]]
    /\ conn' = IF c = Connector THEN "handler" ELSE conn
    /\ nops' = nops + 1
    /\ UNCHANGED <<ws, wire, inbox, close_code, log, restVars>>

\* ws.send raises ConnectionClosed, before or after the frame was written:
\* the statement after the await is skipped. In on_open the exception
\* leaves connect().
SendRaise(c) ==
    /\ co[c].pc \in {"send", "sent"}
    /\ ws = "closed"
    /\ co' = [co EXCEPT ![c].pc = "idle", ![c].err = "ConnectionClosed"]
    /\ message_id' = AfterSendRaises(message_id)
    /\ conn' = IF c = Connector THEN "raised" ELSE conn
    /\ UNCHANGED <<ws, wire, inbox, close_code, log, nops, restVars>>

\* lines 1356-1363: connect() does not assign message_id; the counter is
\* set in __init__ only.
IdAtConnectReset(id) == FirstMessageId
IdAtConnect(id) == id

\* line 1356: connect() is called (again, once the previous call is over).
connect ==
    /\ conn \in {"new", "returned", "raised"}
    /\ Count("connect") < MaxConnects
    /\ conn' = "init"
    /\ log' = Append(log, Event("connect", 0))
    /\ UNCHANGED <<ws, message_id, wire, co, inbox, close_code, nops, restVars>>

\* lines 1356-1368: connect() up to the first suspension inside on_open: the
\* upgrade has succeeded, self.ws is set, on_open calls subscribe_to_tickers.
ConnectOpen ==
    /\ conn = "init"
    /\ ws' = "open"
    /\ close_code' = None
    /\ inbox' = <<>>
    /\ conn' = "on_open"
    /\ log' = log \o <<Event("handshake", 1), Event("on_open", 0)>>
    /\ co' = [co EXCEPT ![Connector] =
                [pc |-> "send",
                 msg |-> [id |-> IdAtConnect(message_id), cmd |-> "subscribe",
                          channels |-> <<"ticker">>, by |-> Connector,
                          sess |-> Count("connect")],
                 err |-> ""]]
    /\ message_id' = IdAtConnect(message_id)
    /\ UNCHANGED <<wire, nops, restVars>>

\* The upgrade fails: websockets.connect raises out of connect().
ConnectFail ==
    /\ conn = "init"
    /\ conn' = "raised"
    /\ log' = Append(log, Event("handshake", 0))
    /\ UNCHANGED <<ws, message_id, wire, co, inbox, close_code, nops, restVars>>

\* The connection closes with `code`: the peer closes or fails it, the
\* network drops it, or some call site calls ws.close().
ConnectionLost(code) ==
    /\ ws = "open"
    /\ ws' = "closed"
    /\ close_code' = code
    /\ UNCHANGED <<message_id, wire, co, conn, inbox, log, nops, restVars>>

\* The messages of this connection that handler has dispatched.
Dispatched ==
    Cardinality({i \in 1..Len(log) :
                   /\ log[i].ev = "on_message"
                   /\ \A j \in i..Len(log) : log[j].ev # "connect"})

\* A message arrives on the open connection; the connection buffers it.
\* Messages are numbered in the order of their arrival.
Receive ==
    /\ ws = "open"
    /\ Len(inbox) + Dispatched < MaxInbound
    /\ inbox' = Append(inbox, Len(inbox) + Dispatched + 1)
    /\ UNCHANGED <<ws, message_id, wire, co, conn, close_code, log, nops,
                   restVars>>

\* line 1444: `async for message in self.ws` yields the messages in the
\* order of their arrival.
NextMessageNewest(q) == q[Len(q)]
NextMessage(q) == Head(q)

\* The exceptions that can be raised inside the read loop: ExceptionClasses
\* derive from Exception (ValueError stands for every class other than
\* ConnectionClosed), CancelledError derives from BaseException only, as
\* KeyboardInterrupt and SystemExit do.
ExceptionClasses == {"ConnectionClosed", "ValueError"}
Raisable == ExceptionClasses \cup {"CancelledError"}

\* lines 1446-1449: the except clause of handler that catches e
except_clauseCloseOnly(e) == IF e = "ConnectionClosed" THEN "on_close" ELSE "none"
except_clause(e) ==
    IF e = "ConnectionClosed" THEN "on_close"
    ELSE IF e \in ExceptionClasses THEN "on_error"
    ELSE "none"

\* The history of an exception of class e raised while message m was being
\* handled, code being the close code a ConnectionClosed carries.
Raised(e, m, code) ==
    <<Event(e, m)>> \o
    (IF except_clause(e) = "on_close" THEN <<Event("on_close", code)>>
     ELSE IF except_clause(e) = "on_error" THEN <<Event("on_error", m)>>
     ELSE <<>>)

\* What connect() does after e was raised in the read loop: handler returns
\* after the callback and connect() returns, or e leaves both.
AfterRaise(e) == IF except_clause(e) = "none" THEN "raised" ELSE AfterHandler

\* lines 1443-1445: one turn of the read loop, on_message(message) returns
Dispatch ==
    /\ CanDispatch(conn)
    /\ inbox # <<>>
    /\ log' = Append(log, Event("on_message", NextMessage(inbox)))
    /\ inbox' = Tail(inbox)
    /\ UNCHANGED <<ws, message_id, wire, co, conn, close_code, nops, restVars>>

\* lines 1443-1449, 1360-1363: on_message(message) raises e (a
\* ConnectionClosed when it uses the connection and the connection is
\* closed). The loop is left, the except clause that catches e calls its
\* callback, and the exit of `async with` closes the connection.
DispatchRaises(e) ==
    /\ CanDispatch(conn)
    /\ inbox # <<>>
    /\ e = "ConnectionClosed" => ws = "closed"
    /\ log' = log \o <<Event("on_message", NextMessage(inbox))>>
                  \o Raised(e, NextMessage(inbox), close_code)
    /\ inbox' = Tail(inbox)
    /\ conn' = AfterRaise(e)
    /\ ws' = "closed"
    /\ close_code' = IF ws = "open" THEN 1000 ELSE close_code
    /\ UNCHANGED <<message_id, wire, co, nops, restVars>>

\* lines 1443-1444, 1360-1363: the task running connect() is cancelled
\* while the read loop waits for a frame; CancelledError is raised at the
\* await.
WaitCancelled ==
    /\ CanDispatch(conn)
    /\ ws = "open"
    /\ inbox = <<>>
    /\ log' = log \o Raised("CancelledError", 0, close_code)
    /\ conn' = AfterRaise("CancelledError")
    /\ ws' = "closed"
    /\ close_code' = 1000
    /\ UNCHANGED <<message_id, wire, co, inbox, nops, restVars>>

\* lines 1441-1449: the connection is closed and every buffered message has
\* been dispatched. After a close with an OK code the loop just ends; after
\* any other close the iteration raises ConnectionClosed and handler calls
\* on_close(e.code, e.reason). Then handler returns and so does connect().
HandlerEnd ==
    /\ conn = "handler"
    /\ ReadLoopWakes(ws)
    /\ inbox = <<>>
    /\ log' = IF close_code \in OKCodes THEN log
              ELSE log \o Raised("ConnectionClosed", 0, close_code)
    /\ conn' = IF close_code \in OKCodes THEN AfterHandler
              ELSE AfterRaise("ConnectionClosed")
    /\ UNCHANGED <<ws, message_id, wire, co, inbox, close_code, nops, restVars>>

\* lines 1343-1354
InitWs ==
    /\ ws = "None"
    /\ message_id = FirstMessageId
    /\ wire = <<>>
    /\ co = [c \in Coros |-> [pc |-> "idle", msg |-> NoMsg, err |-> ""]]
    /\ conn = "new"
    /\ inbox = <<>>
    /\ close_code = None
    /\ log = <<>>
    /\ nops = 0

\* ------------------------------------------------------------------- Init
\* line 39: last_api_call = datetime.now() at construction
InitRest ==
    /\ clock = 0
    /\ last_api_call = 0
    /\ pc = [t \in Threads |-> "idle"]
    /\ cur = [t \in Threads |-> NoCall]
    /\ now = [t \in Threads |-> None]
    /\ acq = [t \in Threads |-> None]
    /\ hdr = [t \in Threads |-> NoHdr]
    /\ sent = [t \in Threads |-> NoReq]
    /\ nreq = [t \in Threads |-> 0]
    /\ outcome = [t \in Threads |-> NoOutcome]
    /\ gate = <<>>
    /\ ncalls = 0

Init == InitRest /\ InitWs

\* One caller issuing REST calls one after another.
Next ==
    \/ get_order(Caller)
    \/ cancel_order(Caller)
    \/ cancel_batched_orders(Caller)
    \/ reset_order_group(Caller)
    \/ get_market_candlesticks(Caller)
    \/ \E p \in RawPaths : get(Caller, p)
    \/ \E y, n \in OptInts : create_order(Caller, y, n)
    \/ \E y, n \in OptInts : amend_order(Caller, y, n)
    \/ \E by, to \in OptInts : decrease_order(Caller, by, to)
    \/ RlRead(Caller)
    \/ RlWake(Caller)
    \/ RlAcquire(Caller)
    \/ \E salt \in Salts : request_headers(Caller, salt)
    \/ \E e \in SignErrors : SignFails(Caller, e)
    \/ \E s \in Statuses, d \in BOOLEAN : Request(Caller, s, d)
    \/ RequestFails(Caller)
    \/ Tick

Spec == Init /\ [][Next]_vars

\* One caller of the getters.
\* The filters a caller supplies: every subset of four of get_markets'
\* filters with a truthy or a falsy value, cursor and limit of get_positions,
\* all or none of the filters of the other drop-None getters.
VariedMarketFilters == {"series_ticker", "status", "limit", "cursor"}
Supplied(keys, S, v) == [k \in keys |-> IF k \in S THEN v ELSE None]

NextGetters ==
    \/ \E S \in SUBSET VariedMarketFilters, v \in {0, 5} :
          get_markets(Caller, Supplied(MarketFilters, S, v))
    \/ \E c, l \in OptInts :
          get_positions(Caller, [Supplied(PositionFilters, {}, None)
                                   EXCEPT !["cursor"] = c, !["limit"] = l])
    \/ \E v \in OptInts : get_fills(Caller, Supplied(FillFilters, FillFilters, v))
    \/ \E v \in OptInts : get_orders(Caller, Supplied(OrderFilters, OrderFilters, v))
    \/ \E v \in OptInts : get_trades(Caller, Supplied(TradeFilters, TradeFilters, v))
    \/ \E ticker \in Tickers : get_events(Caller, ticker)
    \/ \E m, d \in IdLists : get_live_data_batch(Caller, m, d)
    \/ get_total_market_exposure(Caller)
    \/ \E days \in {0, 5} : plot_market_candlesticks(Caller, days)
    \/ RlRead(Caller)
    \/ RlWake(Caller)
    \/ RlAcquire(Caller)
    \/ request_headers(Caller, 1)
    \/ \E s \in {200, 500} : Request(Caller, s, TRUE)
    \/ Tick

SpecGetters == Init /\ [][NextGetters]_vars

\* Callers signing texts with the key of one client.
NextSign ==
    \/ \E t \in Threads, text \in SignedTexts, salt \in Salts :
          SignText(t, text, salt)
    \/ Tick

SpecSign == Init /\ [][NextSign]_vars

\* Several threads calling REST operations on one client.
NextThreads ==
    \/ \E t \in Threads : get_order(t)
    \/ \E t \in Threads : cancel_batched_orders(t)
    \/ \E t \in Threads : RlRead(t)
    \/ \E t \in Threads : RlWake(t)
    \/ \E t \in Threads : RlAcquire(t)
    \/ \E t \in Threads : request_headers(t, 1)
    \/ \E t \in Threads : Request(t, 200, TRUE)
    \/ Tick

SpecThreads == Init /\ [][NextThreads]_vars

\* Several threads at the gate of rate_limit, under a scheduler that runs
\* every thread that can take a step and with time passing.
NextGate ==
    \/ \E t \in Threads : get_order(t)
    \/ \E t \in Threads : RlRead(t)
    \/ \E t \in Threads : RlWake(t)
    \/ \E t \in Threads : RlAcquire(t)
    \/ \E t \in Threads : request_headers(t, 1)
    \/ \E t \in Threads : Request(t, 200, TRUE)
    \/ Tick
    \/ TickAsleep

TimePasses == Tick \/ TickAsleep
SpecGateFair ==
    /\ Init /\ [][NextGate]_vars
    /\ \A t \in Threads :
          WF_vars(RlRead(t)) /\ WF_vars(RlWake(t)) /\ WF_vars(RlAcquire(t))
    /\ WF_vars(TimePasses)

\* One caller issuing control messages, each after the previous one completed.
NextWs ==
    \/ conn = "new" /\ connect
    \/ ConnectOpen
    \/ ConnectFail
    \/ ConnectionLost(1006)
    \/ HandlerEnd
    \/ Quiet /\ subscribe_to_tickers(1)
    \/ Quiet /\ subscribe_to_specific_tickers(1, <<"T", "U">>)
    \/ Quiet /\ subscribe_to_orderbook(1, "T")
    \/ Quiet /\ subscribe_to_trades(1, "T")
    \/ Quiet /\ unsubscribe_from_channel(1, "trade:T")
    \/ Quiet /\ send_custom_message(1, "list_subscriptions")
    \/ \E c \in Coros : SendWrite(c)
    \/ \E c \in Coros : SendReturn(c)
    \/ \E c \in Coros : SendRaise(c)

SpecWs == Init /\ [][NextWs]_vars

\* Several coroutines issuing control messages on one session.
NextWsTasks ==
    \/ conn = "new" /\ connect
    \/ ConnectOpen
    \/ ConnectionLost(1006)
    \/ HandlerEnd
    \/ \E c \in Callers : message_id <= MaxConcMsgs /\ subscribe_to_trades(c, "")
    \/ \E c \in Callers : message_id <= MaxConcMsgs /\ unsubscribe_from_channel(c, "trade")
    \/ \E c \in Callers : message_id <= MaxConcMsgs /\ send_custom_message(c, "list_subscriptions")
    \/ \E c \in Coros : SendWrite(c)
    \/ \E c \in Coros : SendReturn(c)
    \/ \E c \in Coros : SendRaise(c)

SpecWsTasks == Init /\ [][NextWsTasks]_vars

\* The life of the streaming sessions: connect() called, and called again
\* once it is over, inbound messages, and every way the connection closes.
NextSession ==
    \/ connect
    \/ ConnectOpen
    \/ ConnectFail
    \/ Receive
    \/ Dispatch
    \/ \E e \in Raisable : DispatchRaises(e)
    \/ WaitCancelled
    \/ \E code \in CloseCodes : ConnectionLost(code)
    \/ HandlerEnd
    \/ SendWrite(Connector)
    \/ SendReturn(Connector)
    \/ SendRaise(Connector)

SpecSession == Init /\ [][NextSession]_vars

\* A caller that issues its calls one after another, connect() among them:
\* control messages on the open session, and connect() again once the
\* session has ended, on the same client.
NextResume ==
    \/ Quiet /\ connect
    \/ ConnectOpen
    \/ ConnectFail
    \/ \E code \in {1000, 1006} : ConnectionLost(code)
    \/ HandlerEnd
    \/ Quiet /\ unsubscribe_from_channel(1, "trade")
    \/ Quiet /\ send_custom_message(1, "list_subscriptions")
    \/ \E c \in Coros : SendWrite(c)
    \/ \E c \in Coros : SendReturn(c)
    \/ \E c \in Coros : SendRaise(c)

SpecResume == Init /\ [][NextResume]_vars

\* The event loop runs a coroutine that is ready: the read loop when a
\* message is buffered or the connection is closed, ws.send when the frame
\* is written or the connection is closed.
ReadLoop == Dispatch \/ HandlerEnd
SendEnds == SendReturn(Connector) \/ SendRaise(Connector)
SpecSessionFair == SpecSession /\ WF_vars(ReadLoop) /\ WF_vars(SendEnds)

\* ================================================================ claims
Gap(i) == gate[i + 1] - gate[i]

\* C1: with a single caller issuing REST calls one after another, any two
\* consecutive values written to last_api_call by rate_limit are at least
\* 100 ms apart.
C1_ConsecutiveCallsSpaced ==
    \A i \in 1..(Len(gate) - 1) : Gap(i) >= THRESHOLD_IN_MILLISECONDS

\* A call that arrived less than 100 ms after the previous acquisition has
\* slept and passed the gate.
C1_Witness ==
    /\ Len(gate) >= 2
    /\ pc[Caller] = "headers"
    /\ acq[Caller] = gate[Len(gate)]
    /\ now[Caller] - gate[Len(gate) - 1] < THRESHOLD_IN_MILLISECONDS

\* C2: with several threads calling REST operations on one client, every
\* pair of acquisitions of the rate limiter is at least 100 ms apart.
C2_AcquisitionsSerialized ==
    \A i, j \in 1..Len(gate) :
        i < j => gate[j] - gate[i] >= THRESHOLD_IN_MILLISECONDS

\* C3: with control messages issued one after another on one session, the
\* ids of the messages sent are consecutive: each is one more than the id
\* of the message sent before it (so increasing, without gaps or repeats),
\* also across an unsubscribe followed by a subscribe of the same channel.
C3_IdsConsecutive ==
    \A i \in 1..(Len(wire) - 1) : wire[i + 1].id = wire[i].id + 1

\* A channel was unsubscribed and subscribed again, and a custom message
\* was sent.
C3_Witness ==
    /\ \E i, j \in 1..Len(wire) :
          /\ i < j
          /\ wire[i].cmd = "unsubscribe"
          /\ wire[j].cmd = "subscribe"
          /\ wire[j].channels = wire[i].channels
    /\ \E i \in 1..Len(wire) : wire[i].cmd = "list_subscriptions"

\* C4: with several coroutines issuing control messages on one session, no
\* two messages sent carry the same id and the ids reach the socket in
\* increasing order.
C4_ConcurrentIdsIncreasing ==
    \A i, j \in 1..Len(wire) : i < j => wire[i].id < wire[j].id

\* The control messages the caller issued, in the order they were sent.
IsCallers(m) == m.by # Connector
CallerMsgs == SelectSeq(wire, IsCallers)
FirstAreSubscribes(k) == \A j \in 1..k : CallerMsgs[j].cmd = "subscribe"

\* C5 as stated: on a fresh session the first three subscribe calls the
\* caller issues carry the ids 1, 2 and 3.
C5_CallerIdsFromOne ==
    \A k \in 1..Len(CallerMsgs) :
        (k <= 3 /\ FirstAreSubscribes(k)) => CallerMsgs[k].id = k

\* C5, amended: on the first session of a client the first message sent is
\* the 'ticker' subscription of on_open and it carries id 1; the first three
\* subscribe calls the caller issues in sequence carry 2, 3 and 4; and no
\* message, a resubscription included, carries an id already used.
C5_IdsAfterOnOpen ==
    /\ Len(wire) >= 1 =>
          wire[1] = [id |-> 1, cmd |-> "subscribe", channels |-> <<"ticker">>,
                     by |-> Connector, sess |-> 1]
    /\ \A k \in 1..Len(CallerMsgs) :
          (k <= 3 /\ FirstAreSubscribes(k)) => CallerMsgs[k].id = k + 1
    /\ \A i, j \in 1..Len(wire) : i # j => wire[i].id # wire[j].id

\* Three subscribes by the caller, then an unsubscribe and a subscribe of
\* the same channel.
C5_Witness ==
    /\ Len(CallerMsgs) >= 5
    /\ FirstAreSubscribes(3)
    /\ CallerMsgs[4].cmd = "unsubscribe"
    /\ CallerMsgs[5].cmd = "subscribe"
    /\ CallerMsgs[5].channels = CallerMsgs[4].channels

\* C6: create_order with both or neither of yes_price and no_price raises
\* before the rate limiter is acquired and before any HTTP request.
C6_CreateOrderValidates ==
    \A t \in Threads :
        (cur[t].op = "create_order" /\ PairInvalid(cur[t].a, cur[t].b)) =>
            /\ outcome[t].kind = "ValueError"
            /\ pc[t] = "idle"
            /\ acq[t] = None
            /\ nreq[t] = 0

PairKeys(op) ==
    IF op = "decrease_order" THEN <<"reduce_by", "reduce_to">>
    ELSE <<"yes_price", "no_price">>
OneMember(op, a, b) ==
    IF a # None THEN {<<PairKeys(op)[1], a>>} ELSE {<<PairKeys(op)[2], b>>}
IsPairOp(t) == cur[t].op \in {"amend_order", "decrease_order"}

C7_State ==
    \A t \in Threads : IsPairOp(t) =>
        IF PairInvalid(cur[t].a, cur[t].b)
        THEN /\ outcome[t].kind = "ValueError"
             /\ pc[t] = "idle"
             /\ nreq[t] = 0
             /\ sent[t] = NoReq
             /\ acq[t] = None
        ELSE /\ outcome[t].kind # "ValueError"
             /\ cur[t].body = OneMember(cur[t].op, cur[t].a, cur[t].b)
             /\ nreq[t] >= 1 => sent[t].body = cur[t].body

C7_Frame ==
    \A t \in Threads :
        (IsPairOp(t)' /\ outcome'[t].kind = "ValueError"
            /\ <<cur[t], outcome[t]>> # <<cur'[t], outcome'[t]>>) =>
        UNCHANGED <<last_api_call, gate, pc, ncalls, clock>>

\* C7: amend_order (yes_price/no_price) and decrease_order
\* (reduce_by/reduce_to) raise when both or neither member is supplied, and
\* the failing call issues no request and leaves last_api_call as it was;
\* with exactly one member supplied the request body holds that member and
\* not the other.
C7_PairValidated == []C7_State /\ [][C7_Frame]_vars

\* amend_order with yes_price=0 alone was sent with yes_price in the body.
C7_Witness ==
    /\ cur[Caller].op = "amend_order"
    /\ cur[Caller].a = 0
    /\ outcome[Caller].kind = "returned"
    /\ sent[Caller].body = {<<"yes_price", 0>>}

Is2xx(status) == status >= 200 /\ status <= 299
Answered(t) == outcome[t].kind \in {"returned", "HTTPError", "JSONDecodeError"}

\* C8: a primitive answered with a status in 200..299 returns the decoded
\* body (it does not raise an HTTP error), and answered with any other
\* status it raises the error carrying the status: nothing but a 2xx
\* response is returned as a result.
C8_Non2xxRaises ==
    \A t \in Threads :
        /\ outcome[t].kind = "returned" => Is2xx(outcome[t].status)
        /\ (Answered(t) /\ ~Is2xx(outcome[t].status)) =>
              outcome[t].kind = "HTTPError"
        /\ (Answered(t) /\ Is2xx(outcome[t].status)) =>
              outcome[t].kind # "HTTPError"

\* C9: an invocation issues at most one HTTP request; once the request has
\* been answered or has failed (a 429 included) the invocation is over with
\* exactly one request issued.
C9_AtMostOneRequest ==
    \A t \in Threads :
        /\ nreq[t] <= 1
        /\ (Answered(t) \/ outcome[t].kind = "ConnectionError") =>
              (pc[t] = "idle" /\ nreq[t] = 1)

\* create_order was answered 429 and raised.
C9_Witness ==
    /\ cur[Caller].op = "create_order"
    /\ outcome[Caller].kind = "HTTPError"
    /\ outcome[Caller].status = 429
    /\ nreq[Caller] = 1

\* C10: in every REST call the rate limiter is acquired first, then the
\* headers are built with a timestamp not earlier than the acquisition,
\* then exactly one request is sent with the headers this call built.
C10_RateLimitSignSend ==
    \A t \in Threads :
        /\ pc[t] \in {"rate_limit", "sleep", "acquire"} =>
              (acq[t] = None /\ hdr[t] = NoHdr /\ nreq[t] = 0)
        /\ pc[t] = "headers" =>
              (acq[t] # None /\ hdr[t] = NoHdr /\ nreq[t] = 0)
        /\ pc[t] = "request" =>
              (acq[t] # None /\ hdr[t] # NoHdr /\ nreq[t] = 0)
        /\ hdr[t] # NoHdr =>
              (hdr[t].ts >= acq[t] /\ acq[t] >= now[t] /\ hdr[t].call = cur[t].no)
        /\ nreq[t] >= 1 =>
              (nreq[t] = 1 /\ sent[t].hdr = hdr[t] /\ hdr[t] # NoHdr)

\* cancel_batched_orders slept in rate_limit and then sent its DELETE with
\* a body.
C10_Witness ==
    /\ cur[Caller].op = "cancel_batched_orders"
    /\ nreq[Caller] = 1
    /\ sent[Caller].method = "DELETE"
    /\ sent[Caller].body # {}
    /\ sent[Caller].hdr.ts - now[Caller] >= THRESHOLD_IN_MILLISECONDS

\* The number a sequence of decimal digits denotes.
RECURSIVE DecimalValue(_)
DigitValue(c) == CHOOSE d \in 0..9 : Digit(d) = c
DecimalValue(digits) ==
    IF digits = <<>> THEN 0
    ELSE 10 * DecimalValue(SubSeq(digits, 1, Len(digits) - 1))
         + DigitValue(digits[Len(digits)])

\* The pieces of path `p` that follow `m`'s timestamp and method.
SignedPath(h) == SubSeq(h.msg, Len(h.timestamp) + 2, Len(h.msg))

\* C11: the signed message is exactly the decimal millisecond timestamp,
\* then the method, then the path cut at its first '?'; the
\* KALSHI-ACCESS-TIMESTAMP header carries the timestamp string that was
\* signed, and the signature header is the signature of that message.
C11_SignedMessage ==
    \A t \in Threads :
        hdr[t] # NoHdr =>
            LET h == hdr[t]
                n == Len(SignedPath(h))
            IN  /\ DecimalValue(h.timestamp) = h.ts
                /\ Len(h.timestamp) = 1 \/ Head(h.timestamp) # "0"
                /\ SubSeq(h.msg, 1, Len(h.timestamp)) = h.timestamp
                /\ h.msg[Len(h.timestamp) + 1] = cur[t].method
                /\ SignedPath(h) = SubSeq(cur[t].path, 1, n)
                /\ \A i \in 1..n : SignedPath(h)[i] # "?"
                /\ n = Len(cur[t].path) \/ cur[t].path[n + 1] = "?"
                /\ \E salt \in Salts : h.signature = sign_pss_text(h.msg, salt)
                /\ nreq[t] = 1 => sent[t].hdr = h /\ sent[t].path = cur[t].path

\* get_market_candlesticks sent its request at a three-digit time: the
\* query string went to the transport and was left out of the signed
\* message.
C11_Witness ==
    /\ nreq[Caller] = 1
    /\ Len(sent[Caller].path) = 3
    /\ sent[Caller].path[2] = "?"
    /\ Len(sent[Caller].hdr.timestamp) = 3
    /\ sent[Caller].hdr.msg =
          sent[Caller].hdr.timestamp \o <<"GET", sent[Caller].path[1]>>

\* C20: when signing fails, the call is over with the signing error, no
\* HTTP request has been sent for it, and neither the signing nor the call
\* is tried again.
C20_SignFailureSendsNothing ==
    \A t \in Threads :
        outcome[t].kind \in SignErrors =>
            /\ pc[t] = "idle"
            /\ nreq[t] = 0
            /\ sent[t] = NoReq
            /\ hdr[t] = NoHdr

\* create_order passed the rate limiter and then failed to sign.
C20_Witness ==
    /\ cur[Caller].op = "create_order"
    /\ outcome[Caller].kind \in SignErrors
    /\ acq[Caller] # None
    /\ nreq[Caller] = 0

DropNoneGetters == {"get_markets", "get_positions", "get_fills", "get_orders",
                    "get_trades"}
Getters == DropNoneGetters \cup {"get_events", "get_live_data_batch"}
Keys(d) == {kv[1] : kv \in d}

\* The filters the caller of `c` supplied: those it did not leave at None.
SuppliedArgs(c) ==
    IF c.op \in DropNoneGetters THEN {kv \in c.args : kv[2] # None}
    ELSE {kv \in c.args : kv[2] # PyNone}

\* C12 (as stated): the query parameters a getter hands to the transport are
\* exactly the filters its caller supplied, with their values unchanged.
C12_ExactlySuppliedFilters ==
    \A t \in Threads :
        (cur[t].op \in Getters /\ nreq[t] = 1) =>
            sent[t].params = SuppliedArgs(cur[t])

\* C12 (amended): a drop-None getter hands over exactly the filters that are
\* not None, unchanged; get_events hands over its ticker only when it is a
\* non-empty string; get_live_data_batch hands over each non-empty list as
\* the comma-joined string of its items; and in every getter a filter the
\* caller omitted is not a key of the query.
C12_ParamsPerGetter ==
    \A t \in Threads :
        (cur[t].op \in Getters /\ nreq[t] = 1) =>
            LET c == cur[t]
                q == sent[t].params
            IN  /\ c.op \in DropNoneGetters =>
                      /\ q = {kv \in c.args : kv[2] # None}
                      /\ \A kv \in q : kv[2] # None
                /\ c.op = "get_events" =>
                      q = {kv \in c.args : kv[2] \notin {PyNone, PyStr("")}}
                /\ c.op = "get_live_data_batch" =>
                      q = {<<kv[1], PyStr(Join(kv[2].list))>> :
                             kv \in {a \in c.args :
                                       a[2] \notin {PyNone, PyList(<<>>)}}}
                /\ Keys(q) \subseteq Keys(SuppliedArgs(c))

\* get_markets(series_ticker=5, status=5, limit=5) was sent with exactly
\* these three filters and no cursor.
C12_Witness ==
    /\ cur[Caller].op = "get_markets"
    /\ nreq[Caller] = 1
    /\ sent[Caller].params =
          {<<"series_ticker", 5>>, <<"status", 5>>, <<"limit", 5>>}
    /\ <<"cursor", None>> \in cur[Caller].args

\* C19: when the positions are fetched from the start and the fetch has
\* returned, every one of the member's MaxItems positions has been returned,
\* once and in order.
C19_AllItemsReturned ==
    \A t \in Threads :
        (/\ cur[t].op = "get_positions"
         /\ <<"cursor", None>> \in cur[t].args
         /\ outcome[t].kind = "returned") =>
            outcome[t].value.items = [i \in 1..MaxItems |-> i]

\* The places of the history where connect() was called, and the events of
\* kind `ev` that belong to the call made at place i.
ConnectAt == {i \in 1..Len(log) : log[i].ev = "connect"}
SessionEnd(i) ==
    LET later == {j \in ConnectAt : j > i}
    IN  IF later = {} THEN Len(log)
        ELSE (CHOOSE j \in later : \A k \in later : j <= k) - 1
InSession(i, ev) == {j \in i..SessionEnd(i) : log[j].ev = ev}
Handshakes(i, arg) == {j \in InSession(i, "handshake") : log[j].arg = arg}
InLastSession(ev) ==
    IF ConnectAt = {} THEN {}
    ELSE InSession(CHOOSE i \in ConnectAt : \A k \in ConnectAt : k <= i, ev)

\* C13: for each connect call, on_open runs exactly once when the upgrade
\* succeeds and not at all when the handshake fails, and it has run (and
\* returned) before the first inbound message is given to on_message.
C13_OnOpenOncePerConnect ==
    /\ \A i \in ConnectAt :
          /\ Handshakes(i, 1) # {} => Cardinality(InSession(i, "on_open")) = 1
          /\ Handshakes(i, 1) = {} => InSession(i, "on_open") = {}
          /\ \A m \in InSession(i, "on_message") :
                \E o \in InSession(i, "on_open") : o < m
    /\ conn \in {"init", "on_open"} => InLastSession("on_message") = {}

\* A first connect opened, dispatched a message and ended; a second connect
\* failed its handshake and ran no on_open.
C13_Witness ==
    /\ Count("connect") = 2
    /\ Count("on_open") = 1
    /\ Count("on_message") >= 1
    /\ conn = "raised"
    /\ \E i \in ConnectAt : Handshakes(i, 0) # {}

\* C14: when connect() is over after a transport failure (failed upgrade,
\* failed send of the on-open subscription, connection lost or failed by a
\* protocol error), on_error has been called for it.
C14_FailuresReachOnError ==
    (\/ conn = "raised"
     \/ conn = "returned" /\ close_code \notin OKCodes) =>
        InLastSession("on_error") # {}

\* C15: a connect call makes at most one handshake, and once it is over
\* (returned or raised) nothing happens to the session, no handshake, no
\* connection, no dispatch, unless the caller calls connect again.
C15_State == \A i \in ConnectAt : Cardinality(InSession(i, "handshake")) <= 1
C15_Frame ==
    conn \in {"returned", "raised"} =>
        \/ conn' = conn /\ ws' = ws /\ log' = log /\ inbox' = inbox
        \/ conn' = "init" /\ ws' = ws /\ log' = Append(log, Event("connect", 0))
C15_EndedStaysEnded == []C15_State /\ [][C15_Frame]_vars

\* The first session ended with an abnormal close, the caller connected
\* again and the second session has ended too.
C15_Witness ==
    /\ Count("connect") = 2
    /\ Count("handshake") = 2
    /\ Count("on_close") >= 1
    /\ conn = "returned"

\* C16: when connect() has returned, the close of its session has been
\* reported through on_close exactly once.
C16_CloseReportedOnce ==
    conn = "returned" => Cardinality(InLastSession("on_close")) = 1

\* C17: when the connection of a session that is in on_open or in the read
\* loop is closed, connect() eventually returns or raises.
C17_ClosedLeadsToReturn ==
    (ws = "closed" /\ conn \in {"on_open", "handler"})
        ~> (conn \in {"returned", "raised"})

\* The read loop dispatched a message, the connection was closed with 1000
\* and connect() returned.
C17_Witness ==
    /\ conn = "returned"
    /\ close_code = 1000
    /\ InLastSession("on_message") # {}

\* C18: the control operations that have returned, n of them, have sent n
\* messages, one per operation and each with its own id, and message_id
\* has advanced by n; at most one further message is on the wire, that of
\* an operation that has not returned.
C18_OneMessageOneIdPerOperation ==
    /\ message_id = FirstMessageId + nops
    /\ Cardinality({i \in 1..Len(wire) : wire[i].id < message_id}) = nops
    /\ \A k \in 0..(nops - 1) :
          Cardinality({i \in 1..Len(wire) : wire[i].id = FirstMessageId + k}) = 1
    /\ Len(wire) \in {nops, nops + 1}

\* Five operations have returned: the same channel was subscribed twice, one
\* message carried two channels and one was an unsubscribe.
C18_Witness ==
    /\ nops = 5
    /\ Len(wire) = 5
    /\ \E i, j \in 1..Len(wire) :
          i < j /\ wire[i].cmd = "subscribe" /\ wire[j].cmd = "subscribe"
                /\ wire[i].channels = wire[j].channels
    /\ \E i \in 1..Len(wire) : Len(wire[i].channels) = 2
    /\ \E i \in 1..Len(wire) : wire[i].cmd = "unsubscribe"

\* C26: when a call of reset_order_group is over, it has acquired the rate
\* limiter and sent exactly one signed request to the reset path of the
\* order group, and it has returned the decoded body if the status was 2xx.
C26_ResetOrderGroupSends ==
    \A t \in Threads :
        (cur[t].op = "reset_order_group" /\ pc[t] = "idle") =>
            /\ acq[t] # None
            /\ nreq[t] = 1
            /\ sent[t].path = <<portfolio_url \o "/order_groups/id/reset">>
            /\ sent[t].hdr.signature # NoSignature
            /\ Is2xx(outcome[t].status) => outcome[t].kind = "returned"

\* C21: when the HTTP request of a public method has failed (no response,
\* or a response whose status is not 2xx), the method has not returned a
\* result: it has raised.
C21_NoSwallowedError ==
    \A t \in Threads :
        (nreq[t] = 1 /\ pc[t] = "idle" /\ ~Is2xx(outcome[t].status)) =>
            outcome[t].kind # "returned"

\* C25: when get_total_market_exposure has returned, its result is the sum
\* of the absolute market_exposure of all MaxItems positions of the member.
C25_TotalOverAllPositions ==
    \A t \in Threads :
        (cur[t].op = "get_total_market_exposure"
         /\ outcome[t].kind = "returned") =>
            outcome[t].value.total = total_exposure([i \in 1..MaxItems |-> i])

Signed(t) == cur[t].op = "sign_pss_text" /\ outcome[t].kind = "returned"

AtGate(t) == pc[t] \in {"rate_limit", "sleep", "acquire"}

\* C23: a call of rate_limit sleeps at most once and then records
\* last_api_call and returns; while it is at the gate nothing is reported
\* to its caller; and under a fair scheduler every caller at the gate
\* eventually gets through it.
C23_State == \A t \in Threads : AtGate(t) => outcome[t].kind = "none"
C23_Frame ==
    \A t \in Threads :
        /\ pc'[t] = "sleep" => pc[t] \in {"rate_limit", "sleep"}
        /\ pc[t] = "sleep" => pc'[t] \in {"sleep", "acquire"}
        /\ pc[t] = "acquire" =>
              \/ pc'[t] = "acquire"
              \/ pc'[t] = "headers" /\ last_api_call' = clock
C23_RateLimitReturns ==
    /\ []C23_State
    /\ [][C23_Frame]_vars
    /\ \A t \in Threads : AtGate(t) ~> (pc[t] = "headers")

\* Both threads slept at the gate and both got through it.
C23_Witness ==
    /\ \A t \in Threads : pc[t] = "headers" /\ acq[t] - now[t] >= THRESHOLD_IN_MILLISECONDS
    /\ Len(gate) >= 2

\* A control call made by coroutine c in this step.
Called(c) == co[c].pc = "idle" /\ co'[c] # co[c]

\* C30: a subscribe, unsubscribe or custom-message call made while no
\* connection is open (self.ws not yet set, or the connection closed) fails:
\* the call ends with an exception, no frame is written and message_id
\* keeps its value.
C30_Frame ==
    \A c \in Callers :
        Called(c) /\ ws # "open" =>
            /\ co'[c].pc = "idle"
            /\ co'[c].err \in {"AttributeError", "ConnectionClosed"}
            /\ wire' = wire
            /\ message_id' = message_id
            /\ nops' = nops
C30_NoConnectionNoSend == [][C30_Frame]_vars

\* A call was made while the upgrade was under way and self.ws not yet set.
C30_Witness ==
    /\ conn = "init"
    /\ ws = "None"
    /\ co[1].err = "AttributeError"
    /\ wire = <<>>
    /\ message_id = FirstMessageId

\* The places of the history where an exception was raised in the read loop.
RaisedAt == {j \in 1..Len(log) : log[j].ev \in Raisable}
Follows(j, ev) == j < Len(log) /\ log[j + 1].ev = ev
LastEventOfSession(j) == j = Len(log) \/ log[j + 1].ev = "connect"

\* C22 as stated: every exception raised inside the read loop, by the
\* iteration or by on_message, is given to on_error or to on_close, and
\* connect() does not end with it.
C22_ReadLoopExceptionsDelivered ==
    /\ \A j \in RaisedAt : Follows(j, "on_error") \/ Follows(j, "on_close")
    /\ conn = "raised" => \A e \in Raisable : InLastSession(e) = {}

\* C22, amended: an exception deriving from Exception that is raised inside
\* the read loop is given to on_close when it is a ConnectionClosed and to
\* on_error otherwise, and handler and connect() return; an exception that
\* does not derive from Exception (CancelledError) is given to neither
\* callback and leaves handler and connect().
C22_ExceptionsCaught ==
    /\ \A j \in RaisedAt :
          IF log[j].ev = "ConnectionClosed" THEN Follows(j, "on_close")
          ELSE IF log[j].ev \in ExceptionClasses
               THEN Follows(j, "on_error") /\ log[j + 1].arg = log[j].arg
          ELSE LastEventOfSession(j)
    /\ \A e \in ExceptionClasses : InLastSession(e) # {} => conn = "returned"
    /\ \A e \in Raisable \ ExceptionClasses :
          InLastSession(e) # {} => conn = "raised"

\* A first session ended by an abnormal close, which went to on_close; in
\* the second on_message raised a ValueError, which went to on_error, and
\* connect() has returned.
C22_Witness ==
    /\ Count("connect") = 2
    /\ Count("ConnectionClosed") = 1
    /\ Count("on_close") = 1
    /\ InLastSession("ValueError") # {}
    /\ InLastSession("on_error") # {}
    /\ conn = "returned"

\* The messages of the session of place i given to on_message, and the
\* exceptions on_message raised in it.
Handled(i) == InSession(i, "on_message")
RaisedByOnMessage(i) ==
    {j \in RaisedAt : j >= i /\ j <= SessionEnd(i) /\ log[j].arg # 0}
InArrivalOrder(i) ==
    \A j \in Handled(i) :
        log[j].arg = Cardinality({k \in Handled(i) : k <= j})
EndsReadLoop(i, j) ==
    /\ log[j - 1] = Event("on_message", log[j].arg)
    /\ \A k \in Handled(i) : k < j
    /\ Cardinality(RaisedByOnMessage(i)) = 1

\* C29 as stated: in every session the inbound messages are given to
\* on_message in the order of their arrival, and the first exception
\* on_message raises ends the read loop: on_error is called once, with that
\* exception, and no later message of the session is given to on_message.
C29_FirstErrorToOnError ==
    \A i \in ConnectAt :
        /\ InArrivalOrder(i)
        /\ \A j \in RaisedByOnMessage(i) :
              /\ EndsReadLoop(i, j)
              /\ Follows(j, "on_error") /\ log[j + 1].arg = log[j].arg
              /\ Cardinality(InSession(i, "on_error")) = 1

\* C29, amended: in every session the inbound messages are given to
\* on_message in the order of their arrival, and the first exception
\* on_message raises ends the read loop, so that no later message of the
\* session is given to on_message: an exception deriving from Exception is
\* given once to on_error, or to on_close when it is a ConnectionClosed,
\* and an exception that does not derive from Exception is given to neither.
C29_FirstErrorEndsLoop ==
    \A i \in ConnectAt :
        /\ InArrivalOrder(i)
        /\ Cardinality(InSession(i, "on_error")) <= 1
        /\ \A j \in RaisedByOnMessage(i) :
              /\ EndsReadLoop(i, j)
              /\ IF log[j].ev = "ConnectionClosed"
                 THEN Follows(j, "on_close") /\ InSession(i, "on_error") = {}
                 ELSE IF log[j].ev \in ExceptionClasses
                      THEN /\ Follows(j, "on_error")
                           /\ log[j + 1].arg = log[j].arg
                           /\ Cardinality(InSession(i, "on_error")) = 1
                 ELSE LastEventOfSession(j) /\ InSession(i, "on_error") = {}

\* In a first session on_message handled the first message and raised a
\* ValueError on the second, which on_error was called with; in a second
\* session it raised on the first message, on_error was called with it and
\* connect() returned with the next message never dispatched.
C29_Witness ==
    /\ conn = "returned"
    /\ Count("connect") = 2
    /\ Count("on_message") = 3
    /\ \E j \in RaisedAt :
          /\ log[j] = Event("ValueError", 2)
          /\ j + 2 <= Len(log)
          /\ log[j + 1] = Event("on_error", 2)
          /\ log[j + 2].ev = "connect"
    /\ \E j \in RaisedAt :
          /\ log[j] = Event("ValueError", 1)
          /\ j + 1 = Len(log)
          /\ log[j + 1] = Event("on_error", 1)
    /\ inbox = <<2>>

\* The frames written during the connect() call number k.
OfSession(k) == {i \in 1..Len(wire) : wire[i].sess = k}

\* C27 as stated: message_id is at least 1 and is never reset, and the ids
\* of the messages of a later session are above the id of every message of
\* an earlier session.
C27_IdsAboveEarlierSession ==
    /\ message_id >= 1
    /\ \A i, j \in 1..Len(wire) :
          wire[i].sess < wire[j].sess => wire[i].id < wire[j].id

\* C27, amended: message_id is at least 1, never decreases and is not
\* reset by connect(): it is 1 plus the number of sends that returned. The
\* first message of a new session carries the value message_id had when
\* the earlier session ended, so the ids of the new session are above the
\* id of every message whose send returned and not below the id of any
\* message sent; the id of a message whose send raised is used again.
C27_State ==
    /\ message_id >= 1
    /\ message_id = FirstMessageId + nops
    /\ \A i \in 1..Len(wire) : wire[i].id <= message_id
    /\ \A i, j \in 1..Len(wire) :
          wire[i].sess < wire[j].sess => wire[i].id <= wire[j].id
C27_Frame ==
    /\ message_id' >= message_id
    /\ conn = "init" /\ conn' = "on_open" =>
          message_id' = message_id /\ co'[Connector].msg.id = message_id
C27_IdsContinue == []C27_State /\ [][C27_Frame]_vars

\* The first session sent the ids 1 and 2 and both sends returned; the
\* second session has sent its first message, with id 3.
C27_Witness ==
    /\ Cardinality(OfSession(1)) = 2
    /\ \A i \in OfSession(1) : wire[i].id < 3
    /\ \E j \in OfSession(2) : wire[j].id = 3 /\ wire[j].by = Connector

\* A step in which the ws.send of coroutine c raises, and one in which c
\* builds a control message.
SendRaised(c) == co'[c] # co[c] /\ co'[c].err = "ConnectionClosed"
Built(c) == co'[c].msg # co[c].msg /\ co'[c].msg # NoMsg

\* C28: when ws.send raises inside a control call, the call leaves
\* message_id as it was, at the id of the message whose send failed; every
\* control message is built with the current message_id, and message_id
\* changes only when a send returns. So the control message that follows a
\* failed one carries the same id.
C28_Frame ==
    /\ \A c \in Coros :
          /\ SendRaised(c) =>
                message_id' = message_id /\ co'[c].msg.id = message_id
          /\ Built(c) => co'[c].msg.id = message_id'
    /\ message_id' # message_id => nops' = nops + 1
C28_FailedIdReused == [][C28_Frame]_vars

\* The send of the caller's unsubscribe raised after its frame was written,
\* the caller connected again, and the first message of the new session
\* was sent with the id of the unsubscribe.
C28_Witness ==
    \E i \in OfSession(1), j \in OfSession(2) :
        /\ wire[i].cmd = "unsubscribe"
        /\ wire[j].id = wire[i].id
        /\ co[1].err = "ConnectionClosed"
        /\ co[1].msg = wire[i]

====
